---- MODULE Spec2Model ----
(***************************************************************************)
(* Digital Memory Capsule (src/app.py): a Flask service that classifies    *)
(* the emotion of a text, composes the photos of a request into a collage, *)
(* writes photos, collage and a JSON metadata document to a cloud store,   *)
(* and reads the metadata document back by id.                             *)
(*                                                                         *)
(* Strings are sequences of symbols.  Compound polarity scores are         *)
(* integers in ten-thousandths (5000 is 0.5, 500 is 0.05): the scorer      *)
(* rounds the compound score to four decimal places.                       *)
(***************************************************************************)
EXTENDS Integers, Sequences, FiniteSets, TLC

VARIABLES
    compound,      \* SpecAnalyze: the compound score handed to analyze_emotion
    emotion_out,   \* SpecAnalyze: what analyze_emotion returned
    c_pc,          \* SpecCompose: position in create_and_upload_collage
    c_n,           \* SpecCompose: len(image_files)
    c_color,       \* SpecCompose: theme_color
    c_canvas,      \* SpecCompose: the canvas allocated (width, height, fill)
    c_i,           \* SpecCompose: images pasted so far
    c_x,           \* SpecCompose: x_offset
    c_y,           \* SpecCompose: y_offset
    c_cells,       \* SpecCompose: where each image was pasted
    c_result,      \* SpecCompose: the composer's return value
    pc,            \* Spec: position of each create_memory request
    form,          \* Spec: request.form of each create_memory request
    files,         \* Spec: create_memory's files, once validation has passed
    memory_id,     \* Spec: create_memory's memory_id
    file_i,        \* Spec: index of the upload loop of create_memory
    image_urls,    \* Spec: create_memory's image_urls
    emotion_data,  \* Spec: create_memory's emotion_data
    collage_url,   \* Spec: create_memory's collage_url
    response,      \* Spec: the response of each create_memory request
    photos,        \* Spec: Store, the photos uploaded
    collages,      \* Spec: Store, the collages uploaded
    documents,     \* Spec: Store, the raw documents by public id
    got            \* Spec: the latest get_memory request and its response

pureVars == <<compound, emotion_out>>
composeVars == <<c_pc, c_n, c_color, c_canvas, c_i, c_x, c_y, c_cells, c_result>>
localVars == <<files, memory_id, file_i, image_urls, emotion_data, collage_url>>
storeVars == <<photos, collages, documents>>
serviceVars == <<pc, form, localVars, response, storeVars, got>>
vars == <<pureVars, composeVars, serviceVars>>

-----------------------------------------------------------------------------
(* Bounds *)

\* Largest number of images composed in SpecCompose.
MaxImages == 10

\* Number of create_memory requests; their steps interleave with one another
\* and with any number of get_memory requests.
NumCreates == 1

\* Largest number of file parts named "photos" in one request.
MaxFiles == 2

-----------------------------------------------------------------------------
(* Python values *)

None == [t |-> "none"]
Str(s) == [t |-> "str", s |-> s]

-----------------------------------------------------------------------------
(* Emotion Classifier *)

\* Compound scores in ten-thousandths: -1.0000 .. 1.0000.
Scores == -10000 .. 10000

Emotion(e, c, th) == [emotion |-> e, color |-> c, theme |-> th]

Unset == Emotion("", "", "")

\* analyze_emotion with the first threshold inclusive.
analyze_emotion_inclusive(s) ==
    IF s >= 5000 THEN Emotion("Joyful", "#fde047", "Uplifting")
    ELSE IF s > 500 THEN Emotion("Positive", "#86efac", "Peaceful")
    ELSE IF s < -5000 THEN Emotion("Sorrowful", "#60a5fa", "Somber")
    ELSE IF s < -500 THEN Emotion("Reflective", "#c084fc", "Contemplative")
    ELSE Emotion("Neutral", "#e5e7eb", "Calm")

analyze_emotion(s) ==
    IF s > 5000 THEN Emotion("Joyful", "#fde047", "Uplifting")
    ELSE IF s > 500 THEN Emotion("Positive", "#86efac", "Peaceful")
    ELSE IF s < -5000 THEN Emotion("Sorrowful", "#60a5fa", "Somber")
    ELSE IF s < -500 THEN Emotion("Reflective", "#c084fc", "Contemplative")
    ELSE Emotion("Neutral", "#e5e7eb", "Calm")

\* The scores the classifier draws in Spec: a neutral and a joyful text.
SampleScores == {0, 5001}

Colors == {"#fde047", "#86efac", "#60a5fa", "#c084fc", "#e5e7eb"}

-----------------------------------------------------------------------------
(* Collage Composer: layout *)

thumb_size == 300
border == 30

RECURSIVE CeilSqrtFrom(_, _)
CeilSqrtFrom(n, c) == IF c * c >= n THEN c ELSE CeilSqrtFrom(n, c + 1)

\* math.ceil(math.sqrt(num_images))
GridCols(n) == CeilSqrtFrom(n, 0)

\* The rows rounded down instead of up.
GridRowsFloor(n) == n \div GridCols(n)

\* math.ceil(num_images / cols)
GridRows(n) == (n + GridCols(n) - 1) \div GridCols(n)

CanvasWidth(n) == GridCols(n) * thumb_size + 2 * border
CanvasHeight(n) == GridRows(n) * thumb_size + 2 * border

NoCanvas == [width |-> 0, height |-> 0, cols |-> 0, rows |-> 0, fill |-> ""]

NewCanvas(n, color) ==
    [width |-> CanvasWidth(n), height |-> CanvasHeight(n),
     cols |-> GridCols(n), rows |-> GridRows(n), fill |-> color]

AnalyzeOff == compound = 0 /\ emotion_out = Unset

ComposeOff ==
    /\ c_pc = "off" /\ c_n = 0 /\ c_color = "" /\ c_canvas = NoCanvas
    /\ c_i = 0 /\ c_x = 0 /\ c_y = 0 /\ c_cells = <<>> /\ c_result = "pending"

-----------------------------------------------------------------------------
(* JSON: json.dumps on write, response.json() on read *)

List(items) == [t |-> "list", items |-> items]
Dict(items) == [t |-> "dict", items |-> items]
Item(k, v) == [k |-> k, v |-> v]

\* Escaping that forgets the backslash.
RECURSIVE EscapeQuotesOnly(_)
EscapeQuotesOnly(s) ==
    IF s = <<>> THEN <<>>
    ELSE IF Head(s) = "\"" THEN <<"\\", "\"">> \o EscapeQuotesOnly(Tail(s))
    ELSE <<Head(s)>> \o EscapeQuotesOnly(Tail(s))

RECURSIVE Escape(_)
Escape(s) ==
    IF s = <<>> THEN <<>>
    ELSE IF Head(s) = "\"" THEN <<"\\", "\"">> \o Escape(Tail(s))
    ELSE IF Head(s) = "\\" THEN <<"\\", "\\">> \o Escape(Tail(s))
    ELSE <<Head(s)>> \o Escape(Tail(s))

RECURSIVE Unescape(_)
Unescape(s) ==
    IF s = <<>> THEN <<>>
    ELSE IF Head(s) = "\\" /\ Len(s) >= 2
         THEN <<s[2]>> \o Unescape(Tail(Tail(s)))
    ELSE <<Head(s)>> \o Unescape(Tail(s))

\* The JSON text of a Python value, as a tree of JSON syntax.
RECURSIVE JsonEncode(_)
JsonEncode(v) ==
    CASE v.t = "none" -> [j |-> "null"]
      [] v.t = "str" -> [j |-> "string", raw |-> Escape(v.s)]
      [] v.t = "list" ->
            [j |-> "array",
             items |-> [n \in DOMAIN v.items |-> JsonEncode(v.items[n])]]
      [] v.t = "dict" ->
            [j |-> "object",
             members |-> [n \in DOMAIN v.items |->
                            [name |-> Escape(v.items[n].k),
                             value |-> JsonEncode(v.items[n].v)]]]

RECURSIVE JsonDecode(_)
JsonDecode(x) ==
    CASE x.j = "null" -> None
      [] x.j = "string" -> Str(Unescape(x.raw))
      [] x.j = "array" ->
            List([n \in DOMAIN x.items |-> JsonDecode(x.items[n])])
      [] x.j = "object" ->
            Dict([n \in DOMAIN x.members |->
                    Item(Unescape(x.members[n].name),
                         JsonDecode(x.members[n].value))])

\* json.dumps(metadata).encode("utf-8"): the document between its braces.
dumps(v) == <<[tok |-> "open"], [tok |-> "value", json |-> JsonEncode(v)],
              [tok |-> "close"]>>

WellFormed(body) ==
    /\ Len(body) = 3
    /\ body[1].tok = "open" /\ body[2].tok = "value" /\ body[3].tok = "close"

\* response.json(): raises on a body that is not a complete document.
loads(body) == JsonDecode(body[2].json)

\* A body cut short in transit or in the Store.
Truncated(body) == SubSeq(body, 1, Len(body) - 1)

\* metadata[key]
RECURSIVE Lookup(_, _)
Lookup(items, key) ==
    IF items = <<>> THEN None
    ELSE IF Head(items).k = key THEN Head(items).v
    ELSE Lookup(Tail(items), key)

Field(d, key) == Lookup(d.items, key)

-----------------------------------------------------------------------------
(* Memory Service: requests *)

Creates == 1 .. NumCreates

\* A file part of request.files; FileStorage is truthy iff it has a filename.
FileParts == [named : BOOLEAN]

RECURSIVE SeqsUpTo(_, _)
SeqsUpTo(S, n) ==
    IF n = 0 THEN {<<>>}
    ELSE SeqsUpTo(S, n - 1) \cup
         {Append(q, x) : q \in {p \in SeqsUpTo(S, n - 1) : Len(p) = n - 1}, x \in S}

PhotoLists == SeqsUpTo(FileParts, MaxFiles)

\* request.form.get(...): None when the field is missing.
Texts == {None, Str(<<>>), Str(<<"h", "\"", "\\", "i">>)}
Dates == {None, Str(<<>>), Str(<<"2", "0", "3", "0">>)}

Forms == [memoryText : Texts, unlockDate : Dates]

NoForm == [memoryText |-> None, unlockDate |-> None]

\* A check for the missing field only.
FalsyNoneOnly(v) == v.t = "none"

\* Python truthiness of a form field.
Falsy(v) == IF v.t = "str" THEN v.s = <<>> ELSE TRUE

\* str(uuid.uuid4()) of request r: distinct requests draw distinct ids.
uuid4(r) == <<"u", ToString(r)>>

MemoryIds == {uuid4(r) : r \in Creates}

\* The ids a client may ask for: every generated id and one never generated.
AskedIds == MemoryIds \cup {<<"u", "0">>}

NoResponse == [status |-> 0, error |-> "", memoryId |-> None]
Ok(id) == [status |-> 200, error |-> "", memoryId |-> Str(id)]
BadRequest == [status |-> 400, error |-> "Missing text or unlock date", memoryId |-> None]
\* An exception that leaves the handler: Flask answers 500.
ServerError == [status |-> 500, error |-> "Internal Server Error", memoryId |-> None]

\* f"memories/{memory_id}"
Folder(id) == <<"memories", "/">> \o id
\* A collage key without the id.
CollageKeyShared(id) == <<"memories", "/", "collage">>

CollageKey(id) == Folder(id) \o <<"/", "collage">>
MetadataKey(id) == Folder(id) \o <<"/", "metadata">>

\* The secure_url the Store returns for an object.
SecureUrl(public_id) == <<"https://">> \o public_id

\* The public id the Store assigns to the k-th file part uploaded to a folder.
PhotoKey(id, k) == Folder(id) \o <<"/", ToString(k)>>

Metadata(r) ==
    Dict(<<Item(<<"id">>, Str(memory_id[r])),
           Item(<<"text">>, form[r].memoryText),
           Item(<<"unlock_date">>, form[r].unlockDate),
           Item(<<"emotion_data">>,
                Dict(<<Item(<<"emotion">>, Str(<<emotion_data[r].emotion>>)),
                       Item(<<"color">>, Str(<<emotion_data[r].color>>)),
                       Item(<<"theme">>, Str(<<emotion_data[r].theme>>))>>)),
           Item(<<"image_urls">>,
                List([n \in DOMAIN image_urls[r] |-> Str(image_urls[r][n])])),
           Item(<<"collage_url">>, collage_url[r])>>)

\* The URL put in front instead of at the end.
prepend(urls, url) == <<url>> \o urls

\* image_urls.append(upload_result['secure_url'])
append(urls, url) == Append(urls, url)

\* The no-op taken for a single image too.
NoImagesOrOne(image_files) == Len(image_files) <= 1

\* "if not image_files: return None"
NoImages(image_files) == image_files = <<>>

\* cloudinary.uploader.upload(..., overwrite=True)
Put(docs, key, body) ==
    [k \in DOMAIN docs \cup {key} |-> IF k = key THEN body ELSE docs[k]]

NoGet == [id |-> <<>>, fault |-> "none", status |-> 0, error |-> "", record |-> None]

Faults == {"none", "api", "network", "malformed"}

NotFound(id, fault) ==
    [id |-> id, fault |-> fault, status |-> 404,
     error |-> "Memory not found or could not be loaded", record |-> None]

Found(id, metadata) ==
    [id |-> id, fault |-> "none", status |-> 200, error |-> "", record |-> metadata]

-----------------------------------------------------------------------------
(* Memory Service: create_memory and get_memory *)

InitService ==
    /\ pc = [r \in Creates |-> "idle"]
    /\ form = [r \in Creates |-> NoForm]
    /\ files = [r \in Creates |-> <<>>]
    /\ memory_id = [r \in Creates |-> <<>>]
    /\ file_i = [r \in Creates |-> 0]
    /\ image_urls = [r \in Creates |-> <<>>]
    /\ emotion_data = [r \in Creates |-> Unset]
    /\ collage_url = [r \in Creates |-> None]
    /\ response = [r \in Creates |-> NoResponse]
    /\ photos = {}
    /\ collages = {}
    /\ documents = << >>
    /\ got = NoGet

ServiceOff == InitService

Init == AnalyzeOff /\ ComposeOff /\ InitService

\* A failure answered with the id of the memory.
RaiseWithId(r) ==
    /\ pc' = [pc EXCEPT ![r] = "done"]
    /\ response' = [response EXCEPT ![r] =
          [status |-> 500, error |-> "Internal Server Error",
           memoryId |-> Str(memory_id[r])]]

\* An exception leaves create_memory: nothing is caught, nothing is undone.
Raise(r) ==
    /\ pc' = [pc EXCEPT ![r] = "done"]
    /\ response' = [response EXCEPT ![r] = ServerError]

\* Lines 96-103: read the form f and the file parts fs, validate, draw the id.
\* The file parts are not looked at before the upload loop: a request that
\* fails validation ends without them.
CreateMemory(r) ==
    /\ pc[r] = "idle"
    /\ \E f \in Forms, fs \in PhotoLists :
          /\ form' = [form EXCEPT ![r] = f]
          /\ IF Falsy(f.memoryText) \/ Falsy(f.unlockDate)
             THEN /\ pc' = [pc EXCEPT ![r] = "done"]
                  /\ response' = [response EXCEPT ![r] = BadRequest]
                  /\ UNCHANGED localVars
             ELSE /\ pc' = [pc EXCEPT ![r] = "upload"]
                  /\ files' = [files EXCEPT ![r] = fs]
                  /\ memory_id' = [memory_id EXCEPT ![r] = uuid4(r)]
                  /\ file_i' = [file_i EXCEPT ![r] = 1]
                  /\ UNCHANGED <<image_urls, emotion_data, collage_url, response>>
    /\ UNCHANGED <<storeVars, got, pureVars, composeVars>>

\* Lines 107-113: one iteration of the upload loop; the upload may raise.
UploadPhoto(r) ==
    /\ pc[r] = "upload"
    /\ file_i[r] <= Len(files[r])
    /\ IF files[r][file_i[r]].named
       THEN \/ /\ photos' = photos \cup
                     {[key |-> PhotoKey(memory_id[r], file_i[r]),
                       part |-> file_i[r]]}
               /\ image_urls' = [image_urls EXCEPT ![r] =
                     append(@, SecureUrl(PhotoKey(memory_id[r], file_i[r])))]
               /\ file_i' = [file_i EXCEPT ![r] = @ + 1]
               /\ UNCHANGED <<pc, response>>
            \/ /\ Raise(r)
               /\ UNCHANGED <<photos, image_urls, file_i>>
       ELSE /\ file_i' = [file_i EXCEPT ![r] = @ + 1]
            /\ UNCHANGED <<pc, response, photos, image_urls>>
    /\ UNCHANGED <<form, files, memory_id, emotion_data, collage_url, collages,
                   documents, got, pureVars, composeVars>>

\* Lines 116-121 and 50-80: classify the text, rewind every file part and
\* hand all of them to the composer, which returns None for an empty list
\* and otherwise decodes every part (Image.open may raise) and lays them out.
Compose(r, s) ==
    /\ pc[r] = "upload"
    /\ file_i[r] > Len(files[r])
    /\ emotion_data' = [emotion_data EXCEPT ![r] = analyze_emotion(s)]
    /\ IF NoImages(files[r])
       THEN /\ pc' = [pc EXCEPT ![r] = "metadata"]
            /\ UNCHANGED response
       ELSE \/ /\ pc' = [pc EXCEPT ![r] = "collage"]
               /\ UNCHANGED response
            \/ Raise(r)
    /\ UNCHANGED <<form, files, memory_id, file_i, image_urls, collage_url,
                   storeVars, got, pureVars, composeVars>>

\* Lines 83-89: upload the collage; the upload may raise.
UploadCollage(r) ==
    /\ pc[r] = "collage"
    /\ \/ /\ collages' = collages \cup
                {[key |-> CollageKey(memory_id[r]),
                  images |-> Len(files[r]),
                  canvas |-> NewCanvas(Len(files[r]), emotion_data[r].color)]}
          /\ collage_url' = [collage_url EXCEPT ![r] =
                Str(SecureUrl(CollageKey(memory_id[r])))]
          /\ pc' = [pc EXCEPT ![r] = "metadata"]
          /\ UNCHANGED response
       \/ /\ Raise(r)
          /\ UNCHANGED <<collages, collage_url>>
    /\ UNCHANGED <<form, files, memory_id, file_i, image_urls, emotion_data,
                   photos, documents, got, pureVars, composeVars>>

\* Lines 124-144: assemble the metadata, upload it as a raw document, answer.
UploadMetadata(r) ==
    /\ pc[r] = "metadata"
    /\ \/ /\ documents' = Put(documents, MetadataKey(memory_id[r]), dumps(Metadata(r)))
          /\ pc' = [pc EXCEPT ![r] = "done"]
          /\ response' = [response EXCEPT ![r] = Ok(memory_id[r])]
       \/ /\ Raise(r)
          /\ UNCHANGED documents
    /\ UNCHANGED <<form, localVars, photos, collages, got, pureVars, composeVars>>

\* get_memory with the parse outside the try block.
get_memory_uncaught(docs, id, fault) ==
    LET key == MetadataKey(id)
        body == IF fault = "malformed" THEN Truncated(docs[key]) ELSE docs[key]
    IN  IF key \notin DOMAIN docs \/ fault = "api" THEN NotFound(id, fault)
        ELSE IF fault = "network" THEN NotFound(id, fault)
        ELSE IF ~WellFormed(body)
             THEN [id |-> id, fault |-> fault, status |-> 500,
                   error |-> "Internal Server Error", record |-> None]
        ELSE Found(id, loads(body))

\* Lines 146-157: look the document up (fault "api": the Store API raises),
\* fetch it (fault "network"), parse it (fault "malformed"); every exception
\* is caught and answered with 404.
get_memory(docs, id, fault) ==
    LET key == MetadataKey(id)
        body == IF fault = "malformed" THEN Truncated(docs[key]) ELSE docs[key]
    IN  IF key \notin DOMAIN docs \/ fault = "api" THEN NotFound(id, fault)
        ELSE IF fault = "network" THEN NotFound(id, fault)
        ELSE IF ~WellFormed(body) THEN NotFound(id, fault)
        ELSE Found(id, loads(body))

\* A fault is the failure of a step that is reached: with no document in the
\* Store the lookup raises and nothing after it runs.
GetMemory(id, fault) ==
    /\ MetadataKey(id) \notin DOMAIN documents => fault = "none"
    /\ got' = get_memory(documents, id, fault)
    /\ UNCHANGED <<pc, form, localVars, response, storeVars, pureVars, composeVars>>

Next ==
    \/ \E r \in Creates : CreateMemory(r)
    \/ \E r \in Creates : UploadPhoto(r)
    \/ \E r \in Creates, s \in SampleScores : Compose(r, s)
    \/ \E r \in Creates : UploadCollage(r)
    \/ \E r \in Creates : UploadMetadata(r)
    \/ \E id \in AskedIds, fault \in Faults : GetMemory(id, fault)

Spec == Init /\ [][Next]_vars

-----------------------------------------------------------------------------
(* SpecAnalyze: analyze_emotion applied to every compound score *)

InitAnalyze ==
    /\ compound \in Scores
    /\ emotion_out = Unset
    /\ ComposeOff
    /\ ServiceOff

Analyze ==
    /\ emotion_out = Unset
    /\ emotion_out' = analyze_emotion(compound)
    /\ UNCHANGED <<compound, composeVars, serviceVars>>

NextAnalyze == Analyze

-----------------------------------------------------------------------------
(* SpecCompose: create_and_upload_collage on n images *)

InitCompose ==
    /\ AnalyzeOff
    /\ ServiceOff
    /\ c_pc = "start"
    /\ c_n \in 0 .. MaxImages
    /\ c_color \in Colors
    /\ c_canvas = NoCanvas
    /\ c_i = 0 /\ c_x = 0 /\ c_y = 0 /\ c_cells = <<>> /\ c_result = "pending"

\* "if not image_files: return None": no canvas, no upload.
ComposeNoop ==
    /\ c_pc = "start" /\ c_n = 0
    /\ c_pc' = "done" /\ c_result' = "None"
    /\ UNCHANGED <<c_n, c_color, c_canvas, c_i, c_x, c_y, c_cells, pureVars, serviceVars>>

\* Decode, size the grid, thumbnail, allocate the canvas.
ComposeLayout ==
    /\ c_pc = "start" /\ c_n > 0
    /\ c_canvas' = NewCanvas(c_n, c_color)
    /\ c_x' = border /\ c_y' = border /\ c_i' = 0
    /\ c_pc' = "paste"
    /\ UNCHANGED <<c_n, c_color, c_cells, c_result, pureVars, serviceVars>>

\* One iteration of the paste loop.
ComposePaste ==
    /\ c_pc = "paste" /\ c_i < c_n
    /\ c_cells' = Append(c_cells, <<c_x, c_y>>)
    /\ c_i' = c_i + 1
    /\ IF (c_i + 1) % c_canvas.cols = 0
       THEN c_x' = border /\ c_y' = c_y + thumb_size
       ELSE c_x' = c_x + thumb_size /\ c_y' = c_y
    /\ UNCHANGED <<c_pc, c_n, c_color, c_canvas, c_result, pureVars, serviceVars>>

\* Encode as PNG and upload; the secure_url is returned.
ComposeUpload ==
    /\ c_pc = "paste" /\ c_i = c_n
    /\ c_pc' = "done" /\ c_result' = "url"
    /\ UNCHANGED <<c_n, c_color, c_canvas, c_i, c_x, c_y, c_cells, pureVars, serviceVars>>

NextCompose == ComposeNoop \/ ComposeLayout \/ ComposePaste \/ ComposeUpload

SpecAnalyze == InitAnalyze /\ [][NextAnalyze]_vars

SpecCompose == InitCompose /\ [][NextCompose]_vars

-----------------------------------------------------------------------------
(* Vocabulary of the properties *)

\* The positions of the file parts the upload loop accepts, in input order.
RECURSIVE NamedFrom(_, _)
NamedFrom(parts, k) ==
    IF k > Len(parts) THEN <<>>
    ELSE (IF parts[k].named THEN <<k>> ELSE <<>>) \o NamedFrom(parts, k + 1)

Accepted(parts) == NamedFrom(parts, 1)

Blank(v) == v = None \/ v = Str(<<>>)
Invalid(f) == Blank(f.memoryText) \/ Blank(f.unlockDate)

StartsWith(s, prefix) ==
    Len(s) >= Len(prefix) /\ SubSeq(s, 1, Len(prefix)) = prefix

\* memories/<id>/ of the id request r drew.
Prefix(r) == <<"memories", "/">> \o memory_id[r] \o <<"/">>

Started(r) == pc[r] # "idle" /\ memory_id[r] # <<>>

Store == <<photos, collages, documents>>

\* The metadata document request r wrote, parsed.
Written(r) == MetadataKey(memory_id[r]) \in DOMAIN documents
Record(r) == loads(documents[MetadataKey(memory_id[r])])

Urls(record) == Field(record, <<"image_urls">>).items

\* Every URL a record lists is the URL of an object in the Store.
Complete(record) ==
    /\ \A n \in DOMAIN Urls(record) :
          \E p \in photos : Urls(record)[n] = Str(<<"https://">> \o p.key)
    /\ Field(record, <<"collage_url">>) # None =>
          \E c \in collages :
             Field(record, <<"collage_url">>) = Str(<<"https://">> \o c.key)

-----------------------------------------------------------------------------
(* Properties of Spec *)

\* C1: a create whose memoryText or unlockDate is missing or empty answers
\* 400 {"error": "Missing text or unlock date"} and writes nothing: the Store
\* after the request equals the Store before it, whatever photos it carries;
\* the request is then over.
C1_InvalidCreateWritesNothing ==
    [][\A r \in Creates :
         /\ (pc[r] = "idle" /\ pc'[r] # "idle" /\ Invalid(form'[r])) =>
               /\ response'[r] = [status |-> 400,
                                  error |-> "Missing text or unlock date",
                                  memoryId |-> None]
               /\ pc'[r] = "done"
               /\ Store' = Store
         /\ response[r].status = 400 =>
               pc'[r] = "done" /\ response'[r] = response[r]]_vars

C1_Witness ==
    \E r \in Creates :
       /\ response[r].status = 400
       /\ form[r].memoryText = Str(<<"h", "\"", "\\", "i">>)
       /\ form[r].unlockDate = Str(<<>>)

\* C2: a get of the id a successful create returned, with the Store handing
\* back the document that was written, answers 200 with a record whose text,
\* unlock_date, emotion, number of image_urls and presence of collage_url are
\* those the create was given and derived.
C2_RoundTrip ==
    [][\A r \in Creates :
         (/\ got' # got
          /\ response[r].status = 200
          /\ response[r].memoryId = Str(got'.id)
          /\ got'.fault = "none") =>
            /\ got'.status = 200
            /\ Field(got'.record, <<"id">>) = response[r].memoryId
            /\ Field(got'.record, <<"text">>) = form[r].memoryText
            /\ Field(got'.record, <<"unlock_date">>) = form[r].unlockDate
            /\ Field(Field(got'.record, <<"emotion_data">>), <<"emotion">>)
                  = Str(<<emotion_data[r].emotion>>)
            /\ Len(Urls(got'.record)) = Len(image_urls[r])
            /\ (Field(got'.record, <<"collage_url">>) = None)
                  <=> (collage_url[r] = None)]_vars

C2_Witness ==
    /\ got.status = 200
    /\ \E r \in Creates :
          /\ response[r].status = 200
          /\ response[r].memoryId = Str(got.id)
          /\ form[r].memoryText = Str(<<"h", "\"", "\\", "i">>)
          /\ Len(image_urls[r]) = 1
          /\ collage_url[r] # None

\* C3: in every metadata record create writes, collage_url is a URL iff the
\* request carried at least one file part in photos; with none the composer
\* returns None, no collage is uploaded and collage_url is null.
C3_CollageIffPhotos ==
    \A r \in Creates :
       (Started(r) /\ Written(r)) =>
          LET url == Field(Record(r), <<"collage_url">>)
          IN  /\ (url # None) <=> (Len(files[r]) >= 1)
              /\ url # None =>
                    \E c \in collages :
                       /\ StartsWith(c.key, Prefix(r))
                       /\ url = Str(<<"https://">> \o c.key)
              /\ Len(files[r]) = 0 =>
                    ~ \E c \in collages : StartsWith(c.key, Prefix(r))

C3_Witness ==
    \E r \in Creates :
       /\ Started(r) /\ Written(r)
       /\ Len(files[r]) = 1
       /\ Field(Record(r), <<"collage_url">>) # None

\* C4: in every metadata record create writes, image_urls has one entry per
\* accepted photo, in input order: the k-th entry is the URL of the object
\* the Store holds for the k-th accepted file part; empty with no photos.
C4_ImageUrlsInUploadOrder ==
    \A r \in Creates :
       (Started(r) /\ Written(r)) =>
          LET urls == Urls(Record(r))
              parts == Accepted(files[r])
          IN  /\ Len(urls) = Len(parts)
              /\ \A k \in DOMAIN urls :
                    \E p \in photos :
                       /\ StartsWith(p.key, Prefix(r))
                       /\ p.part = parts[k]
                       /\ urls[k] = Str(<<"https://">> \o p.key)

C4_Witness ==
    \E r \in Creates :
       /\ Started(r) /\ Written(r)
       /\ Accepted(files[r]) = <<1, 2>>
       /\ Len(Urls(Record(r))) = 2

\* C5: get answers 200 or 404 and nothing else; every failure (no document,
\* Store API error, network error, malformed JSON) gives the one 404 body
\* {"error": "Memory not found or could not be loaded"} whatever the cause,
\* and 200 is answered only when lookup, fetch and parse all succeeded.
C5_GetFailuresAre404 ==
    got.status # 0 =>
       /\ got.status \in {200, 404}
       /\ got.status = 404 =>
             /\ got.error = "Memory not found or could not be loaded"
             /\ got.record = None
       /\ got.fault # "none" => got.status = 404
       /\ (\A r \in Creates : got.id # memory_id[r]) => got.status = 404
       /\ got.status = 200 =>
             /\ got.fault = "none"
             /\ got.error = ""
             /\ \E r \in Creates : got.id = memory_id[r] /\ Written(r)

C5_Witness ==
    /\ got.status = 404
    /\ got.fault = "malformed"
    /\ \E r \in Creates : got.id = memory_id[r] /\ Written(r)

\* C8: after validation a failed step ends the request with an error that
\* carries no memoryId; nothing is retried and the request writes nothing
\* more, so no metadata document exists for its id; nothing already written
\* is ever removed from the Store.
C8_FailureKeepsOrphans ==
    [][/\ photos \subseteq photos'
       /\ collages \subseteq collages'
       /\ \A k \in DOMAIN documents :
             k \in DOMAIN documents' /\ documents'[k] = documents[k]
       /\ \A r \in Creates :
             /\ response'[r].status = 500 =>
                   /\ response'[r].memoryId = None
                   /\ pc'[r] = "done"
                   /\ ~ \E k \in DOMAIN documents' : StartsWith(k, Prefix(r)')
             /\ response[r].status = 500 =>
                   /\ response'[r] = response[r]
                   /\ {p \in photos' : StartsWith(p.key, Prefix(r))}
                         = {p \in photos : StartsWith(p.key, Prefix(r))}
                   /\ {c \in collages' : StartsWith(c.key, Prefix(r))}
                         = {c \in collages : StartsWith(c.key, Prefix(r))}
             /\ (pc[r] \in {"upload", "collage", "metadata"} /\ pc'[r] = "done") =>
                   \/ response'[r].status = 500 /\ documents' = documents
                   \/ response'[r].status = 200 /\ pc[r] = "metadata"]_vars

C8_Witness ==
    \E r \in Creates :
       /\ response[r].status = 500
       /\ \E p \in photos : StartsWith(p.key, Prefix(r))
       /\ \E c \in collages : StartsWith(c.key, Prefix(r))
       /\ ~ Written(r)

C10_ComposerGetsAcceptedPhotos ==
    /\ \A r \in Creates :
          (Started(r) /\ ~ Invalid(form[r]) /\ Accepted(files[r]) = <<>>) =>
             /\ pc[r] # "collage"
             /\ collage_url[r] = None
    /\ \A c \in collages :
          \A r \in Creates :
             (Started(r) /\ StartsWith(c.key, Prefix(r))) => c.images = Len(image_urls[r])

-----------------------------------------------------------------------------
(* Properties of SpecAnalyze *)

\* C6: for every compound score in [-1, 1] analyze_emotion returns the row
\* of the threshold table the score falls in, with strict boundaries:
\* above 0.5 Joyful, above 0.05 up to 0.5 Positive, below -0.5 Sorrowful,
\* from -0.5 to below -0.05 Reflective, from -0.05 to 0.05 Neutral.
C6_ThresholdTable ==
    emotion_out # Unset =>
       /\ compound \in 5001 .. 10000 =>
             emotion_out = [emotion |-> "Joyful", color |-> "#fde047", theme |-> "Uplifting"]
       /\ compound \in 501 .. 5000 =>
             emotion_out = [emotion |-> "Positive", color |-> "#86efac", theme |-> "Peaceful"]
       /\ compound \in -10000 .. -5001 =>
             emotion_out = [emotion |-> "Sorrowful", color |-> "#60a5fa", theme |-> "Somber"]
       /\ compound \in -5000 .. -501 =>
             emotion_out = [emotion |-> "Reflective", color |-> "#c084fc", theme |-> "Contemplative"]
       /\ compound \in -500 .. 500 =>
             emotion_out = [emotion |-> "Neutral", color |-> "#e5e7eb", theme |-> "Calm"]

C6_Witness == compound = 5000 /\ emotion_out.emotion = "Positive"

-----------------------------------------------------------------------------
(* Properties of SpecCompose *)

\* C7: composing n >= 1 images uses columns = ceil(sqrt(n)), rows =
\* ceil(n / columns) and a canvas columns*300 + 60 wide and rows*300 + 60
\* high (660 x 660 for n = 4); the grid has a cell for every image and no
\* empty row; n = 0 returns None with no canvas and no upload.
C7_GridAndCanvas ==
    /\ (c_pc \in {"paste", "done"} /\ c_n >= 1) =>
          LET cols == c_canvas.cols
              rows == c_canvas.rows
          IN  /\ cols >= 1 /\ (cols - 1) * (cols - 1) < c_n /\ c_n <= cols * cols
              /\ rows >= 1 /\ (rows - 1) * cols < c_n /\ c_n <= rows * cols
              /\ c_canvas.width = cols * 300 + 60
              /\ c_canvas.height = rows * 300 + 60
              /\ c_canvas.fill = c_color
              /\ c_n = 4 => c_canvas.width = 660 /\ c_canvas.height = 660
    /\ (c_pc = "done" /\ c_n = 0) =>
          c_result = "None" /\ c_canvas = NoCanvas /\ c_cells = <<>>
    /\ (c_pc = "done" /\ c_n >= 1) => c_result = "url" /\ Len(c_cells) = c_n

C7_Witness == c_pc = "done" /\ c_n = 10 /\ c_canvas.width = 1260 /\ c_canvas.height = 960

====
